---- MODULE Spec2Model ----
(***************************************************************************)
(* Model of assets/component-product-media-variant-handler.js: the         *)
(* <product-media> custom element.  One element instance, the page's       *)
(* custom-element registry, the two notification channels (window.eventBus *)
(* and the document), the browser's timer table and animation-frame queue, *)
(* the thumbnail slides' inline styles and the two slider handles.         *)
(***************************************************************************)
EXTENDS Integers, Sequences, FiniteSets, TLC

\* ------------------------------------------------------------------ bounds
MaxNotifs == 2        \* notifications delivered over both channels
MaxAttach == 2        \* times the element is attached to the document
MaxScriptRuns == 2    \* times the file's top-level code is evaluated
LoadNotifs == 1       \* notifications delivered while scripts still load
TimeStep == 50        \* the small step by which the clock advances

\* --------------------------------------------------------- program constants
DebounceDelay == 100  \* setTimeout(..., 100)

\* ------------------------------------------------------------ JS values
\* A JavaScript value as far as this file looks at one: a number, a string,
\* null (getAttribute of a missing attribute) or undefined (a missing field).
Num(k) == [t |-> "number", n |-> k, s |-> ""]
Str(x) == [t |-> "string", n |-> 0, s |-> x]
Null == [t |-> "null", n |-> 0, s |-> ""]
Undefined == [t |-> "undefined", n |-> 0, s |-> ""]

Digits == <<"0", "1", "2", "3", "4", "5", "6", "7", "8", "9">>

RECURSIVE NumberToString(_)
NumberToString(k) ==
    IF k < 10 THEN Digits[k + 1]
    ELSE NumberToString(k \div 10) \o Digits[(k % 10) + 1]

\* variantId.toString() is a TypeError on null and undefined.
HasToString(v) == v.t \in {"number", "string"}
toString(v) == IF v.t = "number" THEN NumberToString(v.n) ELSE v.s

\* if (x): the truthiness of a value.
Truthy(v) ==
    \/ v.t = "string" /\ v.s # ""
    \/ v.t = "number" /\ v.n # 0

\* attr === str, attr being null or a string.
StrictEqualsString(attr, str) == attr.t = "string" /\ attr.s = str

\* ------------------------------------------------------------------ the DOM
\* data-variant-id of the slides under [data-slider-main]: two tagged slides
\* and one slide without the attribute.
MainSlides == <<Str("1"), Str("2"), Null>>

\* data-variant-id of the slides under [data-media-thumbnails]: as the main
\* slides, and one slide whose attribute is present and empty.
ThumbnailAttrs == <<Str("1"), Str("2"), Null, Str("")>>

\* Inline styles a thumbnail slide may carry before the element touches it.
InitialStyles ==
    { [display |-> "", visibility |-> ""],
      [display |-> "none", visibility |-> ""],
      [display |-> "", visibility |-> "hidden"] }

\* A slider handle before the first variant change: not yet set on the element,
\* or set and moved by the shopper to its second slide.
InitialSliders ==
    { [present |-> FALSE, activeIndex |-> 0],
      [present |-> TRUE, activeIndex |-> 1] }

\* Identifiers a notification may carry in variant.id: a number and a string
\* that match a main slide, a number that matches none, and no id at all.
VariantIds == {Num(1), Str("2"), Num(3), Undefined}

\* Payloads (data of the bus, event.detail of the document event): none,
\* one without a variant object, one with a variant object.
Payloads ==
    { [data |-> FALSE, variant |-> FALSE, id |-> Undefined],
      [data |-> TRUE, variant |-> FALSE, id |-> Undefined] }
    \cup { [data |-> TRUE, variant |-> TRUE, id |-> v] : v \in VariantIds }

Channels == {"bus", "document"}

NoTimer == 0

VARIABLES
    defined,        \* customElements.get('product-media') is truthy
    scriptRuns,     \* evaluations of the file so far
    defineCalls,    \* customElements.define calls so far
    attached,       \* the element is in the document
    attachCount,    \* connectedCallback runs so far
    eventBus,       \* window.eventBus exists
    busListeners,   \* 'variant:change' listeners of the element on the bus
    docListeners,   \* 'variant:change' listeners of the element on document
    debounceTimer,  \* this.debounceTimer: NoTimer (null) or a timer handle
    timers,         \* the browser's pending timeouts
    nextTimerId,    \* the handle the next setTimeout returns
    sinceLast,      \* time since the last handleVariantChange, up to the delay
    thumbs,         \* inline style of each thumbnail slide
    swiperThumbs,   \* this.swiperThumbs: [present, activeIndex]
    swiperMain,     \* this.swiperMain: [present, activeIndex]
    rafQueue,       \* requestAnimationFrame callbacks not yet run
    notifCount,     \* notifications delivered so far
    calls,          \* every handleVariantChange call, in order
    executed,       \* every updateMediaForVariant execution, in order
    effects,        \* slider calls and broadcasts, in order
    errors,         \* calls whose synchronization threw
    pendingAtDetach, \* calls whose timeout was pending when the element was detached
    framesAtDetach  \* frame callbacks noted as pending when the element was detached

vars ==
    << defined, scriptRuns, defineCalls, attached, attachCount, eventBus,
       busListeners, docListeners, debounceTimer, timers, nextTimerId,
       sinceLast, thumbs, swiperThumbs, swiperMain, rafQueue, notifCount,
       calls, executed, effects, errors, pendingAtDetach, framesAtDetach >>

registryVars == << defined, scriptRuns, defineCalls >>
listenerVars == << attached, attachCount, busListeners, docListeners >>
timerVars == << debounceTimer, timers, nextTimerId, calls >>
domVars == << thumbs, swiperThumbs, swiperMain >>
frameVars == << rafQueue, effects >>

Min(a, b) == IF a < b THEN a ELSE b
Max(a, b) == IF a > b THEN a ELSE b

\* The element as its constructor leaves it, nothing having happened yet.
ElementInit ==
    /\ debounceTimer = NoTimer
    /\ timers = {}
    /\ nextTimerId = 1
    /\ sinceLast = DebounceDelay
    /\ rafQueue = << >>
    /\ notifCount = 0
    /\ calls = << >>
    /\ executed = << >>
    /\ effects = << >>
    /\ errors = {}
    /\ pendingAtDetach = {}
    /\ framesAtDetach = {}

Detached ==
    /\ attached = FALSE
    /\ attachCount = 0
    /\ busListeners = 0
    /\ docListeners = 0

\* A gallery nothing has styled, with both sliders set on the element.
PlainGallery ==
    /\ thumbs = [i \in DOMAIN ThumbnailAttrs |-> [display |-> "", visibility |-> ""]]
    /\ swiperThumbs = [present |-> TRUE, activeIndex |-> 1]
    /\ swiperMain = [present |-> TRUE, activeIndex |-> 1]

\* The page before the file is evaluated for the first time.
LoadInit ==
    /\ defined = FALSE
    /\ scriptRuns = 0
    /\ defineCalls = 0
    /\ eventBus \in BOOLEAN
    /\ Detached
    /\ ElementInit
    /\ PlainGallery

\* The page once the file has been evaluated: the tag is defined, the element
\* is constructed and not yet attached.
Init ==
    /\ defined = TRUE
    /\ scriptRuns = 1
    /\ defineCalls = 1
    /\ eventBus \in BOOLEAN
    /\ Detached
    /\ ElementInit
    /\ PlainGallery

\* The element attached once, on a page with an event bus, over any gallery.
SyncInit ==
    /\ defined = TRUE
    /\ scriptRuns = 1
    /\ defineCalls = 1
    /\ eventBus = TRUE
    /\ attached = TRUE
    /\ attachCount = 1
    /\ busListeners = 1
    /\ docListeners = 1
    /\ ElementInit
    /\ \E s \in InitialStyles : thumbs = [i \in DOMAIN ThumbnailAttrs |-> s]
    /\ swiperThumbs \in InitialSliders
    /\ swiperMain \in InitialSliders

\* ------------------------------------------------------------ registration
\* The file without its guard: define is called on every evaluation.
AlwaysDefine(isDefined) == TRUE

\* if (!customElements.get('product-media')) { ... define ... }
ShouldDefine(isDefined) == ~isDefined

RunScript ==
    /\ scriptRuns < MaxScriptRuns
    /\ scriptRuns' = scriptRuns + 1
    /\ IF ShouldDefine(defined)
       THEN /\ defined' = TRUE
            /\ defineCalls' = defineCalls + 1
       ELSE UNCHANGED << defined, defineCalls >>
    /\ UNCHANGED << listenerVars, eventBus, timerVars, sinceLast, domVars,
                    frameVars, notifCount, executed, errors, pendingAtDetach,
                    framesAtDetach >>

\* ------------------------------------------------------------ the debounce
\* clearTimeout(h): the timeout with that handle, if still pending, is dropped.
clearTimeout(ts, h) == { t \in ts : t.id # h }

\* handleVariantChange without its clearTimeout: the earlier timeout stays pending.
handleVariantChangeNoClear(st, variantId, meta) ==
    [debounceTimer |-> st.nextTimerId,
     timers |-> st.timers \cup {[id |-> st.nextTimerId, variantId |-> variantId,
                                 remaining |-> DebounceDelay,
                                 call |-> Len(st.calls) + 1]},
     nextTimerId |-> st.nextTimerId + 1,
     calls |-> Append(st.calls,
                      [variantId |-> variantId, chan |-> meta.chan,
                       notif |-> meta.notif, burst |-> meta.burst])]

\* handleVariantChange that forgets to keep the new handle in this.debounceTimer.
handleVariantChangeLostHandle(st, variantId, meta) ==
    [debounceTimer |-> st.debounceTimer,
     timers |-> (IF st.debounceTimer # NoTimer
                 THEN { t \in st.timers : t.id # st.debounceTimer }
                 ELSE st.timers)
                \cup {[id |-> st.nextTimerId, variantId |-> variantId,
                        remaining |-> DebounceDelay,
                        call |-> Len(st.calls) + 1]},
     nextTimerId |-> st.nextTimerId + 1,
     calls |-> Append(st.calls,
                      [variantId |-> variantId, chan |-> meta.chan,
                       notif |-> meta.notif, burst |-> meta.burst])]

\* handleVariantChange calling clearTimeout on the handle it has just been
\* given: the new timeout is dropped, the earlier one stays.
handleVariantChangeClearsNew(st, variantId, meta) ==
    [debounceTimer |-> st.nextTimerId,
     timers |-> st.timers,
     nextTimerId |-> st.nextTimerId + 1,
     calls |-> Append(st.calls,
                      [variantId |-> variantId, chan |-> meta.chan,
                       notif |-> meta.notif, burst |-> meta.burst])]

\* handleVariantChange(variantId) on the element's timer state
\* st = [debounceTimer, timers, nextTimerId, calls]; meta describes the call
\* (channel, notification number, whether it came less than the delay after
\* the previous call).
handleVariantChange(st, variantId, meta) ==
    LET cleared == IF st.debounceTimer # NoTimer
                   THEN clearTimeout(st.timers, st.debounceTimer)
                   ELSE st.timers
        call == Len(st.calls) + 1
        timeout == [id |-> st.nextTimerId, variantId |-> variantId,
                    remaining |-> DebounceDelay, call |-> call]
    IN  [debounceTimer |-> st.nextTimerId,
         timers |-> cleared \cup {timeout},
         nextTimerId |-> st.nextTimerId + 1,
         calls |-> Append(st.calls,
                          [variantId |-> variantId, chan |-> meta.chan,
                           notif |-> meta.notif, burst |-> meta.burst])]

\* The guard of both listeners: data && data.variant, event.detail && event.detail.variant.
ListenerAccepts(p) == p.data /\ p.variant

\* One notification reaches every listener the element has on the channel, one
\* after the other, within the same dispatch.
RECURSIVE RunListeners(_, _, _, _)
RunListeners(n, st, p, meta) ==
    IF n = 0 THEN st
    ELSE RunListeners(n - 1,
                      IF ListenerAccepts(p)
                      THEN handleVariantChange(st, p.id, meta)
                      ELSE st,
                      p,
                      [meta EXCEPT !.burst = IF ListenerAccepts(p) THEN TRUE ELSE @])

ListenersOn(chan) == IF chan = "bus" THEN busListeners ELSE docListeners

Deliver(chan, p) ==
    /\ chan = "bus" => eventBus
    /\ LET st == [debounceTimer |-> debounceTimer, timers |-> timers,
                  nextTimerId |-> nextTimerId, calls |-> calls]
           meta == [chan |-> chan, notif |-> notifCount + 1, burst |-> sinceLast < DebounceDelay]
           out == RunListeners(ListenersOn(chan), st, p, meta)
       IN  /\ debounceTimer' = out.debounceTimer
           /\ timers' = out.timers
           /\ nextTimerId' = out.nextTimerId
           /\ calls' = out.calls
           /\ sinceLast' = IF Len(out.calls) > Len(calls) THEN 0 ELSE sinceLast
    /\ notifCount' = notifCount + 1
    /\ UNCHANGED << registryVars, listenerVars, eventBus, domVars, frameVars,
                    executed, errors, pendingAtDetach,
                    framesAtDetach >>

\* ------------------------------------------------------- attach and detach
connectedCallback ==
    /\ defined
    /\ ~attached
    /\ attachCount < MaxAttach
    /\ attached' = TRUE
    /\ attachCount' = attachCount + 1
    /\ busListeners' = IF eventBus THEN busListeners + 1 ELSE busListeners
    /\ docListeners' = docListeners + 1
    /\ UNCHANGED << registryVars, eventBus, timerVars, sinceLast, domVars,
                    frameVars, notifCount, executed, errors, pendingAtDetach,
                    framesAtDetach >>

\* disconnectedCallback without its clearTimeout.
DisconnectTimersNoClear(ts, h) == ts

\* The timers left by disconnectedCallback.
DisconnectTimers(ts, h) == IF h # NoTimer THEN clearTimeout(ts, h) ELSE ts

\* disconnectedCallback; seen is what the run notes of the frame callbacks
\* pending at that moment.
Disconnect(seen) ==
    /\ attached
    /\ attached' = FALSE
    /\ timers' = DisconnectTimers(timers, debounceTimer)
    /\ pendingAtDetach' = pendingAtDetach \cup { t.call : t \in timers }
    /\ framesAtDetach' = seen
    /\ UNCHANGED << registryVars, attachCount, busListeners, docListeners,
                    eventBus, debounceTimer, nextTimerId, calls, sinceLast,
                    domVars, frameVars, notifCount, executed, errors >>

disconnectedCallback == Disconnect(framesAtDetach)

\* disconnectedCallback, the frame callbacks pending at that moment being noted.
disconnectedWithFrames ==
    Disconnect(framesAtDetach \cup { rafQueue[i] : i \in DOMAIN rafQueue })

\* ------------------------------------------------------------------- time
AdvanceTime(d) ==
    /\ \/ sinceLast < DebounceDelay
       \/ \E t \in timers : t.remaining > 0
    /\ timers' = { [t EXCEPT !.remaining = Max(0, @ - d)] : t \in timers }
    /\ sinceLast' = Min(DebounceDelay, sinceLast + d)
    /\ UNCHANGED << registryVars, listenerVars, eventBus, debounceTimer,
                    nextTimerId, calls, domVars, frameVars, notifCount,
                    executed, errors, pendingAtDetach,
                    framesAtDetach >>

\* ------------------------------------------------------- the synchronizer
\* The forEach over the main slides calls variantId.toString() once per slide.
SyncThrows(variantId) == MainSlides # << >> /\ ~HasToString(variantId)

\* variantData after the scan of the main slides: set iff some slide matches.
HasVariantData(variantId) ==
    \E i \in DOMAIN MainSlides :
        StrictEqualsString(MainSlides[i], toString(variantId))

\* updateMediaForVariant without its early return.
NeverAborts(variantId) == FALSE

\* if (!variantData || !variantData.hasMetafieldImages) return;
Aborts(variantId) == ~HasVariantData(variantId)

\* The forEach over the thumbnail slides, hiding a non-matching slide whatever
\* its attribute, a missing one included.
UpdateThumbnailsHideAll(th, variantId) ==
    [i \in DOMAIN th |->
        IF StrictEqualsString(ThumbnailAttrs[i], toString(variantId))
        THEN [display |-> "", visibility |-> "visible"]
        ELSE [th[i] EXCEPT !.display = "none"]]

\* The forEach over the thumbnail slides.
UpdateThumbnails(th, variantId) ==
    [i \in DOMAIN th |->
        IF StrictEqualsString(ThumbnailAttrs[i], toString(variantId))
        THEN [display |-> "", visibility |-> "visible"]
        ELSE IF Truthy(ThumbnailAttrs[i])
             THEN [th[i] EXCEPT !.display = "none"]
             ELSE th[i]]

\* The timeout t comes due: the browser drops it and runs its callback,
\* updateMediaForVariant(t.variantId).
FireTimer(t) ==
    /\ t \in timers
    /\ t.remaining = 0
    /\ timers' = timers \ {t}
    /\ executed' = Append(executed, [call |-> t.call, attached |-> attached])
    /\ IF SyncThrows(t.variantId)
       THEN /\ errors' = errors \cup {t.call}
            /\ UNCHANGED << thumbs, rafQueue >>
       ELSE /\ UNCHANGED errors
            /\ IF Aborts(t.variantId)
               THEN UNCHANGED << thumbs, rafQueue >>
               ELSE /\ thumbs' = UpdateThumbnails(thumbs, t.variantId)
                    /\ rafQueue' = Append(rafQueue, [kind |-> "refresh", job |-> t.call])
    /\ UNCHANGED << registryVars, listenerVars, eventBus, debounceTimer,
                    nextTimerId, calls, sinceLast, swiperThumbs, swiperMain,
                    effects, notifCount, pendingAtDetach,
                    framesAtDetach >>

\* ----------------------------------------------------------------- frames
\* swiper.update(); swiper.slideTo(0) on a slider that is present.
RefreshSlider(sw) == [sw EXCEPT !.activeIndex = 0]

RefreshCalls(sw, name, job) ==
    IF sw.present
    THEN << [job |-> job, op |-> name \o ".update"],
            [job |-> job, op |-> name \o ".slideTo"] >>
    ELSE << >>

\* The outer callback announcing the update at once, before it refreshes the
\* sliders, instead of requesting a second frame for it.
RunCallbackDispatchFirst(cb, fs) ==
    [swiperThumbs |-> IF fs.swiperThumbs.present
                      THEN [fs.swiperThumbs EXCEPT !.activeIndex = 0] ELSE fs.swiperThumbs,
     swiperMain |-> IF fs.swiperMain.present
                    THEN [fs.swiperMain EXCEPT !.activeIndex = 0] ELSE fs.swiperMain,
     effects |-> Append(fs.effects, [job |-> cb.job, op |-> "dispatch"])
                 \o (IF fs.swiperThumbs.present
                      THEN << [job |-> cb.job, op |-> "thumbs.update"],
                              [job |-> cb.job, op |-> "thumbs.slideTo"] >>
                      ELSE << >>)
                 \o (IF fs.swiperMain.present
                      THEN << [job |-> cb.job, op |-> "main.update"],
                              [job |-> cb.job, op |-> "main.slideTo"] >>
                      ELSE << >>),
     next |-> fs.next]

\* The outer callback without its `if (this.swiper...)` guards: calling update
\* on a slider that is not there throws a TypeError, which ends the callback
\* before the inner frame is requested.
RunCallbackUnguarded(cb, fs) ==
    IF cb.kind = "refresh"
    THEN IF ~fs.swiperThumbs.present
         THEN [fs EXCEPT !.effects = Append(@, [job |-> cb.job, op |-> "TypeError"])]
         ELSE IF ~fs.swiperMain.present
              THEN [fs EXCEPT !.swiperThumbs = RefreshSlider(@),
                              !.effects = @ \o RefreshCalls(fs.swiperThumbs, "thumbs", cb.job)
                                            \o << [job |-> cb.job, op |-> "TypeError"] >>]
              ELSE [swiperThumbs |-> RefreshSlider(fs.swiperThumbs),
                    swiperMain |-> RefreshSlider(fs.swiperMain),
                    effects |-> fs.effects \o RefreshCalls(fs.swiperThumbs, "thumbs", cb.job)
                                           \o RefreshCalls(fs.swiperMain, "main", cb.job),
                    next |-> Append(fs.next, [kind |-> "broadcast", job |-> cb.job])]
    ELSE [fs EXCEPT !.effects = Append(@, [job |-> cb.job, op |-> "dispatch"])]

\* Frame callbacks that do nothing once the element is detached, as if
\* teardown had cancelled them.
RunCallbackWhileAttached(cb, fs) ==
    IF ~attached THEN fs
    ELSE IF cb.kind = "refresh"
    THEN [swiperThumbs |-> IF fs.swiperThumbs.present
                           THEN RefreshSlider(fs.swiperThumbs) ELSE fs.swiperThumbs,
          swiperMain |-> IF fs.swiperMain.present
                         THEN RefreshSlider(fs.swiperMain) ELSE fs.swiperMain,
          effects |-> fs.effects \o RefreshCalls(fs.swiperThumbs, "thumbs", cb.job)
                                 \o RefreshCalls(fs.swiperMain, "main", cb.job),
          next |-> Append(fs.next, [kind |-> "broadcast", job |-> cb.job])]
    ELSE [fs EXCEPT !.effects = Append(@, [job |-> cb.job, op |-> "dispatch"])]

\* The outer callback refreshing the main slider before the thumbnail slider.
RunCallbackMainFirst(cb, fs) ==
    IF cb.kind = "refresh"
    THEN [swiperThumbs |-> IF fs.swiperThumbs.present
                           THEN RefreshSlider(fs.swiperThumbs) ELSE fs.swiperThumbs,
          swiperMain |-> IF fs.swiperMain.present
                         THEN RefreshSlider(fs.swiperMain) ELSE fs.swiperMain,
          effects |-> fs.effects \o RefreshCalls(fs.swiperMain, "main", cb.job)
                                 \o RefreshCalls(fs.swiperThumbs, "thumbs", cb.job),
          next |-> Append(fs.next, [kind |-> "broadcast", job |-> cb.job])]
    ELSE [fs EXCEPT !.effects = Append(@, [job |-> cb.job, op |-> "dispatch"])]

\* The inner callback dispatching 'product-media:updated' twice.
RunCallbackDispatchTwice(cb, fs) ==
    IF cb.kind = "refresh"
    THEN [swiperThumbs |-> IF fs.swiperThumbs.present
                           THEN RefreshSlider(fs.swiperThumbs) ELSE fs.swiperThumbs,
          swiperMain |-> IF fs.swiperMain.present
                         THEN RefreshSlider(fs.swiperMain) ELSE fs.swiperMain,
          effects |-> fs.effects \o RefreshCalls(fs.swiperThumbs, "thumbs", cb.job)
                                 \o RefreshCalls(fs.swiperMain, "main", cb.job),
          next |-> Append(fs.next, [kind |-> "broadcast", job |-> cb.job])]
    ELSE [fs EXCEPT !.effects = @ \o << [job |-> cb.job, op |-> "dispatch"],
                                        [job |-> cb.job, op |-> "dispatch"] >>]

\* One callback of the frame on fs = [swiperThumbs, swiperMain, effects, next]:
\* the outer callback refreshes the sliders and requests the inner one, the
\* inner one dispatches 'product-media:updated' on document.
RunCallback(cb, fs) ==
    IF cb.kind = "refresh"
    THEN [swiperThumbs |-> IF fs.swiperThumbs.present
                           THEN RefreshSlider(fs.swiperThumbs) ELSE fs.swiperThumbs,
          swiperMain |-> IF fs.swiperMain.present
                         THEN RefreshSlider(fs.swiperMain) ELSE fs.swiperMain,
          effects |-> fs.effects \o RefreshCalls(fs.swiperThumbs, "thumbs", cb.job)
                                 \o RefreshCalls(fs.swiperMain, "main", cb.job),
          next |-> Append(fs.next, [kind |-> "broadcast", job |-> cb.job])]
    ELSE [fs EXCEPT !.effects = Append(@, [job |-> cb.job, op |-> "dispatch"])]

RECURSIVE RunCallbacks(_, _)
RunCallbacks(queue, fs) ==
    IF queue = << >> THEN fs
    ELSE RunCallbacks(Tail(queue), RunCallback(Head(queue), fs))

\* An animation frame: every callback requested before it runs, in request
\* order; callbacks requested meanwhile wait for the next frame.
RunFrame ==
    /\ rafQueue # << >>
    /\ LET out == RunCallbacks(rafQueue,
                               [swiperThumbs |-> swiperThumbs, swiperMain |-> swiperMain,
                                effects |-> effects, next |-> << >>])
       IN  /\ swiperThumbs' = out.swiperThumbs
           /\ swiperMain' = out.swiperMain
           /\ effects' = out.effects
           /\ rafQueue' = out.next
    /\ UNCHANGED << registryVars, listenerVars, eventBus, timerVars, sinceLast,
                    thumbs, notifCount, executed, errors, pendingAtDetach,
                    framesAtDetach >>

Notify(max) ==
    /\ notifCount < max
    /\ \E chan \in Channels, p \in Payloads : Deliver(chan, p)

Tick == \E d \in {TimeStep, DebounceDelay} : AdvanceTime(d)

Timeout == \E t \in timers : FireTimer(t)

\* The element's life on a page: attached, detached and attached again while
\* notifications arrive, time passes, timeouts and frames run.
Next ==
    \/ connectedCallback
    \/ disconnectedCallback
    \/ Notify(MaxNotifs)
    \/ Tick
    \/ Timeout
    \/ RunFrame

Spec == Init /\ [][Next]_vars

\* Page load: the file is evaluated, possibly more than once, while the
\* element already lives.
LoadNext ==
    \/ RunScript
    \/ connectedCallback
    \/ disconnectedCallback
    \/ Notify(LoadNotifs)
    \/ Tick
    \/ Timeout
    \/ RunFrame

LoadSpec == LoadInit /\ [][LoadNext]_vars

\* Synchronizations of an attached element over any gallery, until it is detached.
SyncNext ==
    \/ disconnectedCallback
    \/ Notify(MaxNotifs)
    \/ Tick
    \/ Timeout
    \/ RunFrame

SyncSpec == SyncInit /\ [][SyncNext]_vars

\* Animation frames keep coming while the page is shown.
FairSyncSpec == SyncSpec /\ WF_vars(RunFrame)

\* One attachment of the element on a page with an event bus and a plain
\* gallery, the frames pending at its teardown being noted.
TeardownInit ==
    /\ defined = TRUE
    /\ scriptRuns = 1
    /\ defineCalls = 1
    /\ eventBus = TRUE
    /\ attached = TRUE
    /\ attachCount = 1
    /\ busListeners = 1
    /\ docListeners = 1
    /\ ElementInit
    /\ PlainGallery

TeardownNext ==
    \/ disconnectedWithFrames
    \/ Notify(MaxNotifs)
    \/ Tick
    \/ Timeout
    \/ RunFrame

TeardownSpec == TeardownInit /\ [][TeardownNext]_vars

\* Time passes, due timeouts fire and animation frames keep coming.
FairTeardownSpec ==
    TeardownSpec /\ WF_vars(Tick) /\ WF_vars(Timeout) /\ WF_vars(RunFrame)

\* ------------------------------------------------------------ properties
\* The number of times updateMediaForVariant ran for call k.
ExecCount(k) == Cardinality({ i \in DOMAIN executed : executed[i].call = k })

Executed(k) == ExecCount(k) > 0

\* C1. Debounce collapsing: a call followed, less than the debounce delay
\* later, by another call is never synchronized; of a burst v1..vN only vN can
\* be, and at most once.
C1_DebounceCollapsing ==
    \A k \in DOMAIN calls :
        /\ (k < Len(calls) /\ calls[k + 1].burst) => ~Executed(k)
        /\ ExecCount(k) <= 1

\* A burst of two notifications whose last identifier was synchronized.
C1_Witness ==
    \E k \in DOMAIN calls :
        /\ k < Len(calls)
        /\ calls[k + 1].burst
        /\ calls[k + 1].notif # calls[k].notif
        /\ calls[k + 1].variantId # calls[k].variantId
        /\ Executed(k + 1)

\* C2. Teardown cancels pending work: a synchronization that was scheduled and
\* still pending when disconnectedCallback ran never executes.
C2_TeardownCancels == \A k \in pendingAtDetach : ~Executed(k)

\* The element was detached with a timeout pending, and the delay has passed.
C2_Witness ==
    /\ pendingAtDetach # {}
    /\ sinceLast = DebounceDelay
    /\ ~attached

\* C3. No synchronization after detachment: updateMediaForVariant only ever
\* runs while the element is attached.
C3_NoSyncAfterDetach == \A i \in DOMAIN executed : executed[i].attached

\* C9. At most one debounce timeout of the element is pending.
C9_SingleTimer == Cardinality(timers) <= 1

\* A timeout pending that replaced an earlier one, both channels having listeners.
C9_Witness ==
    /\ Cardinality(timers) = 1
    /\ Len(calls) >= 2
    /\ \E k \in DOMAIN calls : calls[k].chan = "bus"
    /\ \E k \in DOMAIN calls : calls[k].chan = "document"

\* The identifier of the i-th execution of updateMediaForVariant.
ExecutedId(i) == calls[executed[i].call].variantId

\* The i-th execution found a main slide for its identifier.
Successful(i) == HasToString(ExecutedId(i)) /\ HasVariantData(ExecutedId(i))

\* This step is an execution of updateMediaForVariant.
SyncStep == Len(executed') = Len(executed) + 1

\* A thumbnail slide is tagged with the string form of identifier v.
TaggedWith(i, v) ==
    ThumbnailAttrs[i].t = "string" /\ ThumbnailAttrs[i].s = toString(v)

\* A thumbnail slide carries the attribute, with a value other than v's.
TaggedOtherwise(i, v) ==
    ThumbnailAttrs[i].t = "string" /\ ThumbnailAttrs[i].s # toString(v)

Shown(style) == style.display = "" /\ style.visibility = "visible"

Hidden(style) == style.display = "none"

\* C4, as claimed. Match-and-show: a synchronization that finds a main slide
\* leaves every thumbnail tagged with its identifier visible and every
\* thumbnail carrying the attribute with any other value hidden.
C4_MatchAndShow ==
    [][ (SyncStep /\ Successful(Len(executed))')
        => \A i \in DOMAIN ThumbnailAttrs :
              /\ TaggedWith(i, ExecutedId(Len(executed))')
                    => Shown(thumbs'[i])
              /\ TaggedOtherwise(i, ExecutedId(Len(executed))')
                    => Hidden(thumbs'[i]) ]_vars

\* C4, amended. A synchronization that finds a main slide leaves every
\* thumbnail tagged with its identifier visible, every thumbnail carrying a
\* non-empty attribute of another value hidden, and a thumbnail whose
\* attribute is empty as it was.
C4_MatchAndShowNonEmpty ==
    [][ (SyncStep /\ Successful(Len(executed))')
        => \A i \in DOMAIN ThumbnailAttrs :
              /\ TaggedWith(i, ExecutedId(Len(executed))')
                    => Shown(thumbs'[i])
              /\ (TaggedOtherwise(i, ExecutedId(Len(executed))')
                   /\ ThumbnailAttrs[i].s # "")
                    => Hidden(thumbs'[i])
              /\ (TaggedOtherwise(i, ExecutedId(Len(executed))')
                   /\ ThumbnailAttrs[i].s = "")
                    => thumbs'[i] = thumbs[i] ]_vars

\* Two successful synchronizations in a row: the slide of the first identifier,
\* made visible by the first, is hidden by the second, which shows its own.
C4_Witness ==
    /\ Len(executed) = 2
    /\ Successful(1)
    /\ Successful(2)
    /\ ExecutedId(1) = Num(1)
    /\ ExecutedId(2) = Str("2")
    /\ thumbs[1] = [display |-> "none", visibility |-> "visible"]
    /\ Shown(thumbs[2])

\* The calls whose synchronization found no main slide (or threw on the way).
Unsuccessful ==
    { executed[i].call : i \in { j \in DOMAIN executed : ~Successful(j) } }

\* C5. No-match abort: a synchronization for an identifier that matches no
\* main slide changes no thumbnail style and no slider, invokes no slider
\* operation, requests no frame, and no broadcast is ever made for it.
C5_NoMatchAbort ==
    /\ [][ (SyncStep /\ ~Successful(Len(executed))')
            => UNCHANGED << thumbs, swiperThumbs, swiperMain, rafQueue, effects >> ]_vars
    /\ [](\A k \in Unsuccessful :
            /\ \A i \in DOMAIN effects : effects[i].job # k
            /\ \A i \in DOMAIN rafQueue : rafQueue[i].job # k)

\* A synchronization for an identifier without a main slide has run, after a
\* successful one whose frames are still to come.
C5_Witness ==
    /\ Len(executed) = 2
    /\ Successful(1)
    /\ ExecutedId(2) = Num(3)
    /\ rafQueue # << >>

\* C8. Idempotent registration: however often the file is evaluated, define
\* is called once, by the first evaluation; later ones find the tag defined.
C8_RegisteredOnce ==
    /\ defineCalls <= 1
    /\ scriptRuns >= 1 => (defined /\ defineCalls = 1)

\* The file was evaluated a second time.
C8_Witness == scriptRuns >= 2 /\ defineCalls = 1

\* The calls whose synchronization found a main slide.
SuccessfulCalls ==
    { executed[i].call : i \in { j \in DOMAIN executed : Successful(j) } }

\* The 'product-media:updated' events dispatched for the calls in S.
Dispatches(S) ==
    Cardinality({ i \in DOMAIN effects :
                    effects[i].op = "dispatch" /\ effects[i].job \in S })

\* Before position q, update and then slideTo were invoked for call k on the
\* slider called name.
RefreshedBefore(name, k, q) ==
    \E i, j \in 1 .. (q - 1) :
        /\ i < j
        /\ effects[i] = [job |-> k, op |-> name \o ".update"]
        /\ effects[j] = [job |-> k, op |-> name \o ".slideTo"]

\* C6. Completion broadcast: a broadcast is only made for a successful
\* synchronization, at most once, and after update and slideTo(0) on each
\* slider that is present; the requested frames always come to run, and once
\* none is left every successful synchronization has had its one broadcast.
C6_CompletionBroadcast ==
    /\ [](\A q \in DOMAIN effects :
            effects[q].op = "dispatch" =>
                /\ effects[q].job \in SuccessfulCalls
                /\ Dispatches({effects[q].job}) = 1
                /\ swiperThumbs.present => RefreshedBefore("thumbs", effects[q].job, q)
                /\ swiperMain.present => RefreshedBefore("main", effects[q].job, q))
    /\ [](rafQueue = << >> => \A k \in SuccessfulCalls : Dispatches({k}) = 1)
    /\ []<>(rafQueue = << >>)

\* A broadcast was made with both sliders present.
C6_Witness ==
    /\ swiperThumbs.present
    /\ swiperMain.present
    /\ \E q \in DOMAIN effects : effects[q].op = "dispatch"

\* A payload that lacks the nested variant identifier.
Malformed(p) == ~p.data \/ ~p.variant \/ p.id = Undefined

\* C7. Malformed payloads are ignored: delivering one changes nothing of the
\* element's timer (it neither cancels nor replaces a pending
\* synchronization), and no synchronization ever throws.
C7_MalformedIgnored ==
    /\ [][ (\E chan \in Channels, p \in Payloads : Malformed(p) /\ Deliver(chan, p))
            => UNCHANGED << debounceTimer, timers, nextTimerId, calls >> ]_vars
    /\ [](errors = {})

\* Calls k and k+1 deliver the same identifier over the two channels, the
\* second less than the debounce delay after the first.
DualDelivery(k) ==
    /\ k < Len(calls)
    /\ calls[k].chan # calls[k + 1].chan
    /\ calls[k].variantId = calls[k + 1].variantId
    /\ HasToString(calls[k].variantId)
    /\ calls[k + 1].burst

\* The calls made for the two notifications of the dual delivery at k.
DualCalls(k) ==
    { j \in DOMAIN calls : calls[j].notif \in {calls[k].notif, calls[k + 1].notif} }

Syncs(S) == Cardinality({ i \in DOMAIN executed : executed[i].call \in S })

\* The last call of the dual delivery has been synchronized and no frame of
\* it is still to come.
DualSettled(k) ==
    /\ \E j \in DualCalls(k) :
          /\ Executed(j)
          /\ \A i \in DualCalls(k) : i <= j
    /\ \A i \in DOMAIN rafQueue : rafQueue[i].job \notin DualCalls(k)

\* C10, as claimed. A variant change delivered over both channels within the
\* debounce window results in exactly one synchronization and exactly one
\* broadcast.
C10_DualChannelOneBroadcast ==
    \A k \in DOMAIN calls :
        (DualDelivery(k) /\ DualSettled(k))
            => (Syncs(DualCalls(k)) = 1 /\ Dispatches(DualCalls(k)) = 1)

\* C10, amended. A variant change delivered over both channels within the
\* debounce window never results in more than one synchronization or more
\* than one broadcast; once its last timeout has fired and its frames have
\* run, exactly one synchronization was executed for it, with exactly one
\* broadcast if its identifier matches a main slide and none otherwise.
C10_DualChannelCollapsed ==
    \A k \in DOMAIN calls :
        DualDelivery(k) =>
            /\ Syncs(DualCalls(k)) <= 1
            /\ Dispatches(DualCalls(k)) <= 1
            /\ DualSettled(k) =>
                  /\ Syncs(DualCalls(k)) = 1
                  /\ Dispatches(DualCalls(k)) =
                        IF HasVariantData(calls[k].variantId) THEN 1 ELSE 0

\* A matching identifier came over the bus and then over the document, was
\* synchronized once and broadcast once.
C10_Witness ==
    \E k \in DOMAIN calls :
        /\ DualDelivery(k)
        /\ DualSettled(k)
        /\ calls[k].chan = "bus"
        /\ HasVariantData(calls[k].variantId)
        /\ Dispatches(DualCalls(k)) = 1

\* C11. Ordering: updateMediaForVariant executes for calls in the order they
\* were received, so the identifiers synchronized are a subsequence of the
\* identifiers received; no earlier call is synchronized after a later one.
C11_NotificationOrder ==
    \A i, j \in DOMAIN executed :
        i < j => executed[i].call < executed[j].call

\* Two notifications were synchronized, one after the other.
C11_Witness ==
    /\ Len(executed) = 2
    /\ calls[executed[1].call].notif # calls[executed[2].call].notif
    /\ ExecutedId(1) # ExecutedId(2)

\* What the frame callbacks did for call k, in order.
OpsOf(k) ==
    LET own == SelectSeq(effects, LAMBDA e : e.job = k)
    IN  [i \in DOMAIN own |-> own[i].op]

\* update and then slideTo on the slider called name, if it is present.
RefreshOps(sw, name) ==
    IF sw.present THEN << name \o ".update", name \o ".slideTo" >> ELSE << >>

\* What the two frame callbacks of one synchronization do, in order.
ExpectedOps ==
    RefreshOps(swiperThumbs, "thumbs") \o RefreshOps(swiperMain, "main")
        \o << "dispatch" >>

IsPrefix(s, t) == Len(s) <= Len(t) /\ \A i \in DOMAIN s : s[i] = t[i]

\* No frame callback of call k is still to come.
FramesDone(k) == \A i \in DOMAIN rafQueue : rafQueue[i].job # k

\* C12. A missing slider is not a failure: with swiperThumbs or swiperMain
\* absent, a successful synchronization throws nothing, its frame callbacks
\* do nothing but update and slideTo on each slider that is present and the
\* broadcast, and once they have run each present slider was refreshed and
\* exactly one broadcast was made.
C12_MissingSliderTolerated ==
    (~swiperThumbs.present \/ ~swiperMain.present) =>
        \A k \in SuccessfulCalls :
            /\ k \notin errors
            /\ IsPrefix(OpsOf(k), ExpectedOps)
            /\ FramesDone(k) =>
                  /\ OpsOf(k) = ExpectedOps
                  /\ Dispatches({k}) = 1

\* Without a thumbnail slider, the main slider was refreshed and the broadcast
\* made.
C12_Witness ==
    /\ ~swiperThumbs.present
    /\ swiperMain.present
    /\ \E k \in SuccessfulCalls :
          /\ FramesDone(k)
          /\ OpsOf(k) = << "main.update", "main.slideTo", "dispatch" >>

\* A thumbnail slide without the data-variant-id attribute.
Untagged(i) == ThumbnailAttrs[i] = Null

\* C13. Untagged thumbnails are never touched: no step, a matching or a
\* non-matching synchronization included, changes the display or visibility
\* of a thumbnail slide that has no data-variant-id attribute, so it keeps
\* the style it had initially.
C13_UntaggedUntouched ==
    [][ \A i \in DOMAIN ThumbnailAttrs : Untagged(i) => thumbs'[i] = thumbs[i] ]_vars

\* After a matching and a non-matching synchronization the untagged slide
\* still shows with the visibility 'hidden' it started with, while the
\* tagged slides were restyled.
C13_Witness ==
    /\ Len(executed) = 2
    /\ Successful(1)
    /\ ~Successful(2)
    /\ \E i \in DOMAIN ThumbnailAttrs :
          Untagged(i) /\ thumbs[i] = [display |-> "", visibility |-> "hidden"]
    /\ Shown(thumbs[1])
    /\ Hidden(thumbs[2])

\* C14. Debounce liveness: a synchronization runs no sooner than the debounce
\* delay after the last call; pending timeouts always come to fire, and once
\* none is pending the last call received, unless teardown cancelled its
\* timeout, has been synchronized exactly once.
C14_DebounceLiveness ==
    /\ [][ SyncStep => sinceLast = DebounceDelay ]_vars
    /\ [](\A k \in DOMAIN calls : ExecCount(k) <= 1)
    /\ []((timers = {} /\ calls # << >> /\ Len(calls) \notin pendingAtDetach)
            => ExecCount(Len(calls)) = 1)
    /\ []<>(timers = {})

\* The element, still attached, received two identifiers more than the delay
\* apart, and each was synchronized.
C14_Witness ==
    /\ attached
    /\ pendingAtDetach = {}
    /\ timers = {}
    /\ Len(calls) = 2
    /\ ~calls[2].burst
    /\ ExecCount(1) = 1
    /\ ExecCount(2) = 1

\* This step is a run of disconnectedCallback.
TeardownStep == attached /\ ~attached'

\* C15. Frame-deferred steps are not cancelled by teardown:
\* disconnectedCallback touches no requested frame, slider or style and only
\* removes timeouts; the frame callbacks pending at that moment still come to
\* run, and once they have, the synchronization they belong to has refreshed
\* the sliders and made its one broadcast.
C15_FramesSurviveTeardown ==
    /\ [][ TeardownStep
            => /\ UNCHANGED << rafQueue, effects, thumbs, swiperThumbs, swiperMain >>
               /\ timers' \subseteq timers ]_vars
    /\ [](\A f \in framesAtDetach :
            /\ f.job \in SuccessfulCalls
            /\ IsPrefix(OpsOf(f.job), ExpectedOps)
            /\ FramesDone(f.job) => OpsOf(f.job) = ExpectedOps)
    /\ []<>(rafQueue = << >>)

\* A synchronization ran while the element was attached, the element was
\* detached with the outer frame callback pending, and refresh and broadcast
\* have happened since.
C15_Witness ==
    /\ ~attached
    /\ \E i \in DOMAIN executed :
          /\ executed[i].attached
          /\ [kind |-> "refresh", job |-> executed[i].call] \in framesAtDetach
          /\ FramesDone(executed[i].call)
          /\ OpsOf(executed[i].call) = ExpectedOps
          /\ swiperThumbs.activeIndex = 0
          /\ swiperMain.activeIndex = 0

\* The slider calls of one synchronization: the thumbnail slider first.
ExpectedRefresh ==
    RefreshOps(swiperThumbs, "thumbs") \o RefreshOps(swiperMain, "main")

\* C16. Fixed order within one successful synchronization: thumbnail styles
\* change only in the timer callback, which requests the outer frame and
\* calls no slider and dispatches nothing; the outer frame callback runs in a
\* later step and calls update, slideTo on the thumbnail slider and then on
\* the main slider; the broadcast is made in a step after that one, by the
\* inner frame callback the outer one requested.
C16_StepOrder ==
    /\ [][ thumbs' # thumbs => SyncStep ]_vars
    /\ [][ (SyncStep /\ Successful(Len(executed))')
            => /\ UNCHANGED << effects, swiperThumbs, swiperMain >>
               /\ rafQueue' = Append(rafQueue,
                                     [kind |-> "refresh", job |-> executed'[Len(executed')].call]) ]_vars
    /\ [](\A k \in DOMAIN calls : IsPrefix(OpsOf(k), ExpectedOps))
    /\ [][ \A k \in DOMAIN calls :
             OpsOf(k)' # OpsOf(k) =>
                \/ /\ [kind |-> "refresh", job |-> k] \in { rafQueue[i] : i \in DOMAIN rafQueue }
                   /\ OpsOf(k) = << >>
                   /\ OpsOf(k)' = ExpectedRefresh
                   /\ [kind |-> "broadcast", job |-> k] \in { rafQueue'[i] : i \in DOMAIN rafQueue' }
                \/ /\ [kind |-> "broadcast", job |-> k] \in { rafQueue[i] : i \in DOMAIN rafQueue }
                   /\ OpsOf(k) = ExpectedRefresh
                   /\ OpsOf(k)' = ExpectedOps ]_vars
    /\ [][ \A k \in DOMAIN calls :
             [kind |-> "refresh", job |-> k] \in { rafQueue[i] : i \in DOMAIN rafQueue }
                => Dispatches({k})' = 0 ]_vars

\* Two synchronizations whose frames interleave, both sliders present: each
\* went through its five steps in order, the second one's refresh coming
\* before the first one's broadcast.
C16_Witness ==
    /\ Len(executed) = 2
    /\ \A i \in DOMAIN executed :
          OpsOf(executed[i].call) =
              << "thumbs.update", "thumbs.slideTo", "main.update", "main.slideTo", "dispatch" >>
    /\ \E i, j \in DOMAIN effects :
          /\ i < j
          /\ effects[i] = [job |-> executed[2].call, op |-> "main.slideTo"]
          /\ effects[j] = [job |-> executed[1].call, op |-> "dispatch"]

\* The executions of updateMediaForVariant that found a main slide.
SuccessfulRuns == { i \in DOMAIN executed : Successful(i) }

\* The identifier of the most recent of them.
LastSuccessfulId ==
    ExecutedId(CHOOSE i \in SuccessfulRuns : \A j \in SuccessfulRuns : j <= i)

\* A thumbnail slide whose data-variant-id is present and not empty.
NonEmptyTag(i) == ThumbnailAttrs[i].t = "string" /\ ThumbnailAttrs[i].s # ""

\* C17. Gallery consistency: once a synchronization has found a main slide,
\* every thumbnail slide with a non-empty data-variant-id is visible if its
\* attribute is the string form of the identifier of the most recent such
\* synchronization and hidden otherwise; synchronizations that find no main
\* slide, or throw, in between do not change this.
C17_GalleryConsistency ==
    SuccessfulRuns # {} =>
        \A i \in DOMAIN ThumbnailAttrs :
            NonEmptyTag(i) =>
                IF TaggedWith(i, LastSuccessfulId)
                THEN Shown(thumbs[i])
                ELSE Hidden(thumbs[i])

\* The synchronization for "2" was followed by one for 3, which has no main
\* slide: the gallery still shows the slides of "2".
C17_Witness ==
    /\ Len(executed) = 2
    /\ ExecutedId(1) = Str("2")
    /\ ExecutedId(2) = Num(3)
    /\ Shown(thumbs[2])
    /\ Hidden(thumbs[1])

\* C18. Broadcast accounting: the 'product-media:updated' events dispatched
\* never outnumber the synchronizations that found a main slide; none is
\* dispatched for a call that was not synchronized (its timeout cancelled or
\* still pending) or whose synchronization found no main slide; the
\* requested frames always come to run, and once none is left the two
\* numbers are equal.
C18_BroadcastAccounting ==
    /\ [](Dispatches(DOMAIN calls) <= Cardinality(SuccessfulRuns))
    /\ [](\A k \in DOMAIN calls \ SuccessfulCalls : Dispatches({k}) = 0)
    /\ [](rafQueue = << >> => Dispatches(DOMAIN calls) = Cardinality(SuccessfulRuns))
    /\ []<>(rafQueue = << >>)

\* Two synchronizations found a main slide and their frames interleaved, the
\* second refreshing the sliders before the first broadcast; two broadcasts
\* were made.
C18_Witness ==
    /\ Cardinality(SuccessfulRuns) = 2
    /\ Dispatches(DOMAIN calls) = 2
    /\ rafQueue = << >>
    /\ \E i, j \in DOMAIN effects :
          /\ i < j
          /\ effects[i].job = executed[2].call
          /\ effects[j] = [job |-> executed[1].call, op |-> "dispatch"]

\* The handleVariantChange calls made for notification n, one per listener.
CallsOf(n) == { k \in DOMAIN calls : calls[k].notif = n }

\* C19. Re-attachment: every connectedCallback adds a listener on document,
\* and one on the bus if there is one, and none is ever removed; yet at most
\* one timeout is pending, and of the calls one notification makes, one per
\* listener, at most one is synchronized.
C19_Reattachment ==
    /\ docListeners = attachCount
    /\ busListeners = IF eventBus THEN attachCount ELSE 0
    /\ Cardinality(timers) <= 1
    /\ \A n \in 1 .. notifCount : Syncs(CallsOf(n)) <= 1

\* Attached, detached and attached again, the element heard one notification
\* twice and synchronized it once.
C19_Witness ==
    /\ attachCount = 2
    /\ attached
    /\ \E n \in 1 .. notifCount :
          /\ Cardinality(CallsOf(n)) = 2
          /\ Syncs(CallsOf(n)) = 1
          /\ \A k \in CallsOf(n) : Executed(k) => \A j \in CallsOf(n) : j <= k
    /\ timers = {}

====
